---- MODULE Spec2Model ----
(***************************************************************************)
(* Lead-manager board: per-status paged loading, single-lead updates and   *)
(* status changes of KanbanBoard.tsx, with the API layer and the remote    *)
(* service they talk to.                                                   *)
(*                                                                         *)
(* Spec      the board with the generation counter (static columns).       *)
(* SpecDrag  the board with drag-and-drop status changes (onDragEnd).      *)
(***************************************************************************)
EXTENDS Integers, Sequences, FiniteSets, TLC

(* ------------------------------ bounds --------------------------------- *)

\* loadGenRef is an unbounded counter: loads are started while it is below this.
MaxGen == 2

\* Debounce timers that may be pending for one status at a time.
MaxTimers == 2

\* Load-more requests that may be in flight at a time.
MaxInflight == 1

\* Status changes made during a run.
MaxChanges == 1

\* Cards dragged during a run of SpecDrag.
MaxDrags == 2

(* --------------------------- program constants ------------------------- *)

\* const PAGE_SIZE = 10, scaled down so that a status with three leads has
\* two pages.
PAGE_SIZE == 2

(* ------------------------------- data ---------------------------------- *)

Leads == {"a", "b", "c"}

Statuses == {1, 2}

\* A createdAt string that new Date() cannot parse.
Unparseable == -1

\* Lead.createdAt: a and b were created at the same time, c carries a
\* timestamp that cannot be parsed.
CreatedAt(l) == CASE l = "a" -> 2 [] l = "b" -> 2 [] OTHER -> Unparseable

\* The Lead objects the board holds: identity and status (createdAt is a
\* function of the identity).
LeadRec(l, s) == [id |-> l, statusId |-> s]

\* (new Date(x.createdAt).getTime() || 0): NaN and 0 both give 0.
GetTimeOrZero(r) == IF CreatedAt(r.id) = Unparseable THEN 0 ELSE CreatedAt(r.id)

\* One step of Array.prototype.sort with the comparator
\* (a, b) => time(b) - time(a): x goes after every element that does not
\* sort after it (the sort is stable).
RECURSIVE InsertDesc(_, _)
InsertDesc(x, s) ==
  IF s = <<>> THEN <<x>>
  ELSE IF GetTimeOrZero(Head(s)) >= GetTimeOrZero(x)
       THEN <<Head(s)>> \o InsertDesc(x, Tail(s))
       ELSE <<x>> \o s

RECURSIVE StableSortDesc(_)
StableSortDesc(s) ==
  IF s = <<>> THEN <<>>
  ELSE InsertDesc(s[Len(s)], StableSortDesc(SubSeq(s, 1, Len(s) - 1)))

\* Mutant: the bucket is left in arrival order.
SortByCreatedDesc_unsorted(s) == s

\* sortByCreatedDesc / the inline .sort(...) of the merges.
SortByCreatedDesc(s) == StableSortDesc(s)

Ids(s) == {s[i].id : i \in 1..Len(s)}

\* (d.leads || []).filter((l) => String(l.statusId) === String(st.id))
DefensiveFilter(s, st) == SelectSeq(s, LAMBDA r : r.statusId = st)

\* Mutant: the page is appended without looking at the bucket.
DedupedIncoming_all(existing, incoming) == incoming

\* incomingPage.filter((it) => !existingIds.has(it.id))
DedupedIncoming(existing, incoming) ==
  SelectSeq(incoming, LAMBDA r : r.id \notin Ids(existing))

(* ------------------------- the remote service -------------------------- *)

\* Row order of the leads sheet.
SheetRows == <<"a", "c", "b">>

VARIABLES
  srvStatus,      \* remote: statusId of every lead
  leadsByStatus,  \* useState: statusId -> Lead[] (a key may be absent)
  totals,         \* useState: statusId -> number (a key may be absent)
  pagesFetched,   \* useState: statusId -> pages fetched
  loadingMore,    \* useState: statusId -> boolean
  loading,        \* useState: the board shows the spinner, not the columns
  loadTimers,     \* useRef: statusId -> timer id or null
  pendingTimers,  \* window timers not fired yet: statusId -> pages, oldest first
  inProgress,     \* useRef: statusId -> pages being fetched (a key may be absent)
  loadGen,        \* useRef: generation of the newest loadLeads call
  loadPhase,      \* per loadLeads call: where it is
  loadPending,    \* per loadLeads call: page-1 requests not answered yet
  moreReqs,       \* load-more requests in flight
  statusChange,   \* the status change in flight, if any
  drags,          \* SpecDrag: the onDragEnd calls made so far
  statuses,       \* useState: the columns (empty until fetchStatuses answered)
  nChanges,       \* status changes made so far
  lastOp,         \* history: the step just taken
  build,          \* api.ts: which of the two services/api.ts is loaded
  now,            \* api.ts: Date.now()
  cache,          \* api.ts: APICache.cache, key -> entry
  session,        \* api.ts: localStorage holds "user"
  calls,          \* api.ts: calls of the API layer awaiting the remote service
  nCalls,         \* api.ts: calls made so far
  lastApi,        \* history: what the API layer returned in the step just taken
  mustMiss,       \* history: patterns invalidated by a mutation, no read since
  previewData,    \* CSVImport: useState, the parsed rows
  importing,      \* CSVImport: useState
  importProgress, \* CSVImport: useState
  importPhase,    \* CSVImport: where handleImport is
  toInsert,       \* CSVImport: handleImport's rows left after the precheck
  batchesSent,    \* CSVImport: the arguments of the importLeads calls, in order
  importedCount,  \* CSVImport: handleImport's counter
  notice,         \* CSVImport: what the user is shown at the end
  srvAssignee,    \* remote service: the assignee of lead x
  listAssignee,   \* App: assignedTo of lead x in the board's and the table's rows
  selectedLead,   \* App: useState, the lead of the detail view or null
  assigningLead,  \* LeadDetailsModal: useState
  assignOut,      \* LeadDetailsModal: the assignLead call awaited, if any
  reloadOut,      \* App: a reload of board and table started by handleLeadUpdate is out
  assignLog,      \* history: the arguments of the assignLead calls, in order
  detailMsg,      \* LeadDetailsModal: the message under key "assignLead"
  user,           \* App: useState, the user logged in or null
  viewer,         \* App: user.role and user.id of the user shown the views
  tableProps,     \* App: the userRole and userId handed to LeadsTable
  salesFilter,    \* KanbanBoard: useState
  boardLoad,      \* KanbanBoard: the loadLeads awaiting its Promise.all, if any
  lastReq,        \* history: the last leads request of the board
  statusFilter,   \* LeadsTable: useState
  assignedFilter, \* LeadsTable: useState
  tblLog,         \* history: the fetchLeads calls of loadLeads, in order, and their answers
  tblShown,       \* LeadsTable: the call whose answer leads, total and page were set from
  sheetTokens,    \* Apps Script: the token column of the users sheet, by user
  scriptCache,    \* Apps Script: the script cache's entry of sheetRows("users")
  scriptNow,      \* Apps Script: the time
  nTokens,        \* Apps Script: the tokens uuid() has made
  scriptAnswer    \* history: the last request to doPost and its answer

boardVars == <<srvStatus, leadsByStatus, totals, pagesFetched, loadingMore,
               loading, loadTimers, pendingTimers, inProgress, loadGen,
               loadPhase, loadPending, moreReqs, statusChange, drags, statuses,
               nChanges, lastOp>>

apiVars == <<build, now, cache, session, calls, nCalls, lastApi, mustMiss,
            user>>

importVars == <<previewData, importing, importProgress, importPhase, toInsert,
                batchesSent, importedCount, notice>>

detailVars == <<srvAssignee, listAssignee, selectedLead, assigningLead, assignOut, reloadOut, assignLog, detailMsg>>

viewVars == <<viewer, tableProps, salesFilter, boardLoad, lastReq, statusFilter, assignedFilter, tblLog, tblShown>>

scriptVars == <<sheetTokens, scriptCache, scriptNow, nTokens, scriptAnswer>>

vars == <<boardVars, apiVars, importVars, detailVars, viewVars, scriptVars>>

\* handleFetchLeadsPaged: the rows in sheet order, filtered by statusId when
\* the request names one the service understands, as the records it sends.
ServerRows(st, honoured) ==
  LET rows == SelectSeq(SheetRows, LAMBDA l : (~honoured) \/ srvStatus[l] = st)
  IN  [i \in 1..Len(rows) |-> LeadRec(rows[i], srvStatus[rows[i]])]

\* filtered.slice(offset, offset + limit) and total = filtered.length
ServerPage(st, page, honoured) ==
  LET rows   == ServerRows(st, honoured)
      offset == (page - 1) * PAGE_SIZE
      last   == IF offset + PAGE_SIZE < Len(rows) THEN offset + PAGE_SIZE ELSE Len(rows)
  IN  [ok |-> TRUE, leads |-> SubSeq(rows, offset + 1, last), total |-> Len(rows)]

\* fetchLeadsByStatus never throws: a failure is {success: false}.
FailedResponse == [ok |-> FALSE, leads |-> <<>>, total |-> 0]

\* What fetchLeadsByStatus(st, PAGE_SIZE, page) can resolve to.
Responses(st, page) ==
  {FailedResponse} \cup {ServerPage(st, page, h) : h \in BOOLEAN}

(* ------------------------------ the board ------------------------------ *)

Null == "null"

NoChange == [lead |-> "", to |-> 0, from |-> 0, applied |-> FALSE]

\* History: the steps the properties below talk about are recorded with
\* their status, a flag and a lead; every other step is recorded as Quiet.
Op(name, st, flag, id) == [op |-> name, st |-> st, flag |-> flag, id |-> id]

Quiet == Op("step", 0, FALSE, "")

\* leadsByStatus[String(statusId)] || []
Bucket(st) == IF st \in DOMAIN leadsByStatus THEN leadsByStatus[st] ELSE <<>>

\* The buckets that hold a lead with this id.
Holders(l) == {s \in Statuses : l \in Ids(Bucket(s))}

\* The response carries a lead of st that the bucket of st does not hold.
Brings(st, res) == Ids(DefensiveFilter(res.leads, st)) \ Ids(Bucket(st)) # {}

\* The response repeats a page: the page is recorded as fetched and every
\* lead it carries for st is in the bucket already.
Repeats(st, page, res) ==
  /\ page \in pagesFetched[st]
  /\ DefensiveFilter(res.leads, st) # <<>>
  /\ ~Brings(st, res)

\* Mutant: the other keys are dropped.
Put_only(f, k, v) == [x \in {k} |-> v]

\* {...f, [k]: v}
Put(f, k, v) == [x \in (DOMAIN f) \cup {k} |-> IF x = k THEN v ELSE f[x]]

\* ---- services/api.ts and CSVImport.tsx: data ----

\* Time on the clock of a run.
MaxNow == 2

\* Calls of the API layer made during a run, and out at once.
MaxApiCalls == 3
MaxApiInflight == 2

\* Rows handed to one importLeads call.
MaxBatchRows == 2

\* Rows of an uploaded file.
MaxRows == 5

\* The ttl arguments of apiCache.set, in units of 30000 ms.
TTL_META == 10
TTL_COMMENTS == 1
TTL_LEADS == 2

\* const batchSize of handleImport, scaled down.
BATCH_SIZE == 2

\* The two services/api.ts of the repository; NoBuild before the module is
\* evaluated.
Builds == {"azure", "appsScript"}
NoBuild == "none"

ApiReads == {"fetchStatuses", "fetchUsers", "fetchCommentsByLead", "fetchLeads",
             "fetchLeadsByStatus", "testAPI"}
CachedReads == ApiReads \ {"testAPI"}
ApiMutations == {"updateLeadStatus", "assignLead", "addComment"}

\* What the remote service can answer: a 2xx with data, a 2xx whose wrapper
\* says success: false, a 401, any other failure (network, timeout, HTTP).
RemoteAnswers == {"ok", "refused", "unauthorized", "error"}

\* The axios instance a call goes through: api carries the interceptors,
\* bare axios does not.
Client(b, op) ==
  IF op = "testAPI" THEN "axios"
  ELSE IF b = "appsScript" /\ op \in ApiReads THEN "axios"
  ELSE "api"

\* The cache key of a read, a string split at "_": fetchLeads(1, 2),
\* fetchLeadsByStatus("1", 2, 1), fetchCommentsByLead("a").
CacheKeyOf(op) ==
  CASE op = "fetchStatuses" -> <<"statuses">>
    [] op = "fetchUsers" -> <<"users">>
    [] op = "fetchCommentsByLead" -> <<"comments", "a">>
    [] op = "fetchLeads" -> <<"leads", "1", "2", "">>
    [] OTHER -> <<"leads", "1", "2", "StatusId=1">>

CacheKeys == {CacheKeyOf(op) : op \in CachedReads}

\* The ttl a read stores its result with.
Ttl(key) ==
  CASE Head(key) = "leads" -> TTL_LEADS
    [] Head(key) = "comments" -> TTL_COMMENTS
    [] OTHER -> TTL_META

\* The argument of apiCache.invalidate after a mutation.
PatternOf(op) == IF op = "addComment" THEN <<"comments", "a">> ELSE <<"leads">>

\* key.includes(pattern)
Includes(key, pattern) ==
  \E i \in 1..Len(key) :
    /\ i + Len(pattern) - 1 <= Len(key)
    /\ SubSeq(key, i, i + Len(pattern) - 1) = pattern

\* The users of the application, and no user.
Users == {"u1", "u2"}
NoUser == "none"

\* by (history): the user logged in when the entry was stored.
NoEntry == [timestamp |-> -1, expiresAt |-> -1, by |-> NoUser]
EmptyCache == [k \in CacheKeys |-> NoEntry]

\* APICache.set at time t; the data stored is told by its timestamp.
CacheSet(c, key, ttl, t) ==
  [c EXCEPT ![key] = [timestamp |-> t, expiresAt |-> t + ttl, by |-> user]]

\* APICache.get at time t returns the data.
CacheHit(c, key, t) == c[key] # NoEntry /\ ~(t > c[key].expiresAt)

\* The cache after APICache.get at time t.
CacheAfterGet(c, key, t) ==
  IF c[key] # NoEntry /\ t > c[key].expiresAt
  THEN [c EXCEPT ![key] = NoEntry]
  ELSE c

\* APICache.invalidate
Invalidate(c, pattern) ==
  [k \in CacheKeys |-> IF Includes(k, pattern) THEN NoEntry ELSE c[k]]

\* A result of the API layer: success as returned, and whether the data came
\* from the cache, from an answer of the remote service, or from neither.
ApiResult(op, success, served) == [op |-> op, success |-> success, served |-> served]
ApiQuiet == ApiResult("", FALSE, "none")

NoNotice == [kind |-> "none", count |-> -1]

\* ---- App.tsx and LeadDetailsModal.tsx: data ----

\* assignLead calls made from the detail view during a run.
MaxAssigns == 2

\* salesTeamMembers, and the absent assignee.

\* selectedLead === null; assigned tells the user of the last assignLead that
\* succeeded while this lead was in the view.
NoLead == [open |-> FALSE, assignedTo |-> NoUser, assigned |-> NoUser]

NoAssign == [user |-> NoUser, applied |-> FALSE]

\* The loadLeads calls of the table, and the pages of the table.
MaxTableLoads == 3
MaxPage == 2

\* The two App.tsx of the repository.
AppVersions == {"first", "second"}

Roles == {"Admin", "SalesTeam"}

\* null or undefined as a filter, a prop or an argument.
NoFilter == "none"
NoViewer == [role |-> "none", id |-> NoUser]
NoBoardLoad == [out |-> FALSE, override |-> NoFilter, salesFilter |-> NoFilter]
NoReq == [op |-> "none", assigned |-> NoFilter]

\* The status values of the table's status Select.
StatusFilters == {"1"}

\* The Apps Script backend: the tokens uuid() can make, how far its time
\* runs, and CACHE_DURATION scaled down.
MaxTokens == 3
MaxScriptNow == 3
CACHE_DURATION == 2

\* No token in a row or a request; no cached rows; no request yet.
NoToken == 0
NoRows == [rows |-> <<>>, expiresAt |-> -1]
NoAnswer == [action |-> "none", user |-> NoUser, token |-> NoToken,
             success |-> FALSE, error |-> ""]

Init ==
  /\ srvStatus = [l \in Leads |-> 1]
  /\ leadsByStatus = <<>>
  /\ totals = <<>>
  /\ pagesFetched = [s \in Statuses |-> {}]
  /\ loadingMore = [s \in Statuses |-> FALSE]
  /\ loading = TRUE
  /\ loadTimers = [s \in Statuses |-> Null]
  /\ pendingTimers = [s \in Statuses |-> <<>>]
  /\ inProgress = <<>>
  /\ loadGen = 0
  /\ loadPhase = [g \in 1..MaxGen |-> "idle"]
  /\ loadPending = [g \in 1..MaxGen |-> {}]
  /\ moreReqs = {}
  /\ statusChange = NoChange
  /\ drags = {}
  /\ statuses = {}
  /\ nChanges = 0
  /\ lastOp = Quiet
  /\ build = NoBuild
  /\ now = 0
  /\ cache = EmptyCache
  /\ session = FALSE
  /\ calls = {}
  /\ nCalls = 0
  /\ lastApi = ApiQuiet
  /\ mustMiss = {}
  /\ previewData = <<>>
  /\ importing = FALSE
  /\ importProgress = 0
  /\ importPhase = "idle"
  /\ toInsert = <<>>
  /\ batchesSent = <<>>
  /\ importedCount = 0
  /\ notice = NoNotice
  /\ srvAssignee = NoUser
  /\ listAssignee = NoUser
  /\ selectedLead = NoLead
  /\ assigningLead = FALSE
  /\ assignOut = NoAssign
  /\ reloadOut = FALSE
  /\ assignLog = <<>>
  /\ detailMsg = "none"
  /\ user = NoUser
  /\ viewer = NoViewer
  /\ tableProps = NoViewer
  /\ salesFilter = NoFilter
  /\ boardLoad = NoBoardLoad
  /\ lastReq = NoReq
  /\ statusFilter = NoFilter
  /\ assignedFilter = NoFilter
  /\ tblLog = <<>>
  /\ tblShown = 0
  /\ sheetTokens = [u \in Users |-> NoToken]
  /\ scriptCache = NoRows
  /\ scriptNow = 0
  /\ nTokens = 0
  /\ scriptAnswer = NoAnswer

\* loadLeads up to its first await: the generation is bumped and the
\* bulk calls fetchLeads() and fetchStatuses() are sent.
StartLoad ==
  /\ loadGen < MaxGen
  /\ loadGen' = loadGen + 1
  /\ loading' = TRUE
  /\ loadPhase' = [loadPhase EXCEPT ![loadGen + 1] = "bulk"]

\* useEffect(() => { loadLeads(); }, [userRole, userId]) on mount.
MountEffect ==
  /\ loadGen = 0
  /\ StartLoad
  /\ lastOp' = Quiet
  /\ UNCHANGED <<srvStatus, leadsByStatus, totals, pagesFetched, loadingMore,
                 loadTimers, pendingTimers, inProgress, loadPending, moreReqs,
                 statusChange, drags, statuses, nChanges>>
  /\ UNCHANGED <<apiVars, importVars, detailVars, viewVars, scriptVars>>

\* reloadLeads: setPagesFetched({}); await loadLeads()
ReloadLeads ==
  /\ loadGen >= 1
  /\ StartLoad
  /\ pagesFetched' = [s \in Statuses |-> {}]
  /\ lastOp' = Quiet
  /\ UNCHANGED <<srvStatus, leadsByStatus, totals, loadingMore, loadTimers,
                 pendingTimers, inProgress, loadPending, moreReqs,
                 statusChange, drags, statuses, nChanges>>
  /\ UNCHANGED <<apiVars, importVars, detailVars, viewVars, scriptVars>>

\* loadLeads after Promise.all([fetchLeads(), fetchStatuses()]) resolved.
\* With the statuses the buckets and totals are reset and page 1 of every
\* status is requested; without them the load ends (finally: setLoading(false)).
BulkResponse(g, statusesOk) ==
  /\ loadPhase[g] = "bulk"
  /\ IF statusesOk
     THEN /\ statuses' = Statuses
          /\ leadsByStatus' = [s \in Statuses |-> <<>>]
          /\ totals' = [s \in Statuses |-> 0]
          /\ loadPhase' = [loadPhase EXCEPT ![g] = "pages"]
          /\ loadPending' = [loadPending EXCEPT ![g] = Statuses]
          /\ UNCHANGED loading
     ELSE /\ loadPhase' = [loadPhase EXCEPT ![g] = "done"]
          /\ loading' = FALSE
          /\ UNCHANGED <<statuses, leadsByStatus, totals, loadPending>>
  /\ lastOp' = Quiet
  /\ UNCHANGED <<srvStatus, pagesFetched, loadingMore, loadTimers,
                 pendingTimers, inProgress, loadGen, moreReqs, statusChange,
                 drags, nChanges>>
  /\ UNCHANGED <<apiVars, importVars, detailVars, viewVars, scriptVars>>

\* Mutant: the generation of the response is not looked at.
IsStale_never(gen) == FALSE

\* loadGenRef.current !== myGen / loadGenRef.current !== pageGen
IsStale(gen) == loadGen # gen

\* The page-1 callback of loadLeads for status st, resolved with res.
\* The last one to resolve ends the load (finally: setLoading(false)).
PageOneResponse(g, st, res) ==
  /\ loadPhase[g] = "pages"
  /\ st \in loadPending[g]
  /\ LET incoming == DefensiveFilter(res.leads, st)
         left     == loadPending[g] \ {st}
     IN  /\ IF res.ok /\ ~IsStale(g)
            THEN /\ leadsByStatus' = Put(leadsByStatus, st, SortByCreatedDesc(incoming))
                 /\ totals' = Put(totals, st, res.total)
                 /\ pagesFetched' = [pagesFetched EXCEPT ![st] = @ \cup {1}]
                 /\ loadingMore' = [loadingMore EXCEPT ![st] = FALSE]
            ELSE UNCHANGED <<leadsByStatus, totals, pagesFetched, loadingMore>>
         /\ loadPending' = [loadPending EXCEPT ![g] = left]
         /\ IF left = {}
            THEN /\ loadPhase' = [loadPhase EXCEPT ![g] = "done"]
                 /\ loading' = FALSE
            ELSE UNCHANGED <<loadPhase, loading>>
  /\ lastOp' = IF res.ok /\ g # loadGen
               THEN Op("stalePageOne", st, Brings(st, res), "")
               ELSE Quiet
  /\ UNCHANGED <<srvStatus, loadTimers, pendingTimers, inProgress, loadGen,
                 moreReqs, statusChange, drags, statuses, nChanges>>
  /\ UNCHANGED <<apiVars, importVars, detailVars, viewVars, scriptVars>>

\* Mutant: the lead is added to its bucket and left where it was.
UpdateLeadBuckets_added(r) ==
  Put(leadsByStatus, r.statusId, <<r>> \o Bucket(r.statusId))

\* updateLead(updatedLead): the lead leaves every bucket, enters the bucket
\* of its statusId in front, that bucket is sorted, and the totals become
\* the bucket lengths.
UpdateLeadBuckets(r) ==
  LET removed == [sid \in DOMAIN leadsByStatus |->
                    SelectSeq(leadsByStatus[sid], LAMBDA x : x.id # r.id)]
      old     == IF r.statusId \in DOMAIN removed THEN removed[r.statusId] ELSE <<>>
  IN  Put(removed, r.statusId, SortByCreatedDesc(<<r>> \o old))

UpdateLead(r) ==
  /\ leadsByStatus' = UpdateLeadBuckets(r)
  /\ totals' = [sid \in DOMAIN UpdateLeadBuckets(r) |-> Len(UpdateLeadBuckets(r)[sid])]

\* inProgressPagesRef.current[statusId], an absent set read as empty.
InProgressOf(st) == IF st \in DOMAIN inProgress THEN inProgress[st] ELSE {}

\* Math.floor(already / PAGE_SIZE) + 1
NextPage(st) == (Len(Bucket(st)) \div PAGE_SIZE) + 1

\* Mutant: the total is not looked at.
NoMoreToLoad_never(st) == FALSE

\* already >= (totals[statusId] ?? Infinity)
NoMoreToLoad(st) == st \in DOMAIN totals /\ Len(Bucket(st)) >= totals[st]

\* The timers of st that survive clearTimeout(loadTimers.current[st]): the
\* ref names the timer scheduled last, and clearing a fired one does nothing.
AfterClear(st) ==
  IF loadTimers[st] = "pending"
  THEN SubSeq(pendingTimers[st], 1, Len(pendingTimers[st]) - 1)
  ELSE pendingTimers[st]

\* loadMoreForStatus(st), called from the column's scroll handler or its
\* Load more button: the synchronous part, up to scheduling the timer.
LoadMoreTrigger(st) ==
  /\ ~loading
  /\ st \in statuses
  /\ IF NoMoreToLoad(st) \/ NextPage(st) \in pagesFetched[st]
     THEN UNCHANGED <<pendingTimers, loadTimers>>
     ELSE /\ Len(AfterClear(st)) < MaxTimers
          /\ pendingTimers' = [pendingTimers EXCEPT ![st] = Append(AfterClear(st), NextPage(st))]
          /\ loadTimers' = [loadTimers EXCEPT ![st] = "pending"]
  /\ lastOp' = IF NoMoreToLoad(st) /\ Len(Bucket(st)) > PAGE_SIZE
               THEN Op("noMore", st, FALSE, "")
               ELSE Quiet
  /\ UNCHANGED <<srvStatus, leadsByStatus, totals, pagesFetched, loadingMore,
                 loading, inProgress, loadGen, loadPhase, loadPending,
                 moreReqs, statusChange, drags, statuses, nChanges>>
  /\ UNCHANGED <<apiVars, importVars, detailVars, viewVars, scriptVars>>

\* A copy number that tells apart two requests for the same page sent in
\* the same generation.
FreshCopy(st, page) ==
  CHOOSE k \in 0..MaxInflight :
    [st |-> st, page |-> page, gen |-> loadGen, k |-> k] \notin moreReqs

\* The timer callback of loadMoreForStatus up to its await: the oldest
\* pending timer of st fires with the page computed when it was scheduled.
TimerFire(st) ==
  /\ pendingTimers[st] # <<>>
  /\ LET page == Head(pendingTimers[st])
         ref  == IF loadTimers[st] = "pending" /\ Len(pendingTimers[st]) = 1
                 THEN "fired" ELSE loadTimers[st]
     IN  /\ pendingTimers' = [pendingTimers EXCEPT ![st] = Tail(@)]
         /\ IF page \in InProgressOf(st)
            THEN /\ loadingMore' = [loadingMore EXCEPT ![st] = FALSE]
                 /\ loadTimers' = [loadTimers EXCEPT ![st] = Null]
                 /\ UNCHANGED <<inProgress, moreReqs>>
            ELSE /\ Cardinality(moreReqs) < MaxInflight
                 /\ loadingMore' = [loadingMore EXCEPT ![st] = TRUE]
                 /\ loadTimers' = [loadTimers EXCEPT ![st] = ref]
                 /\ inProgress' = Put(inProgress, st, InProgressOf(st) \cup {page})
                 /\ moreReqs' = moreReqs \cup
                      {[st |-> st, page |-> page, gen |-> loadGen, k |-> FreshCopy(st, page)]}
         /\ lastOp' = Quiet
  /\ UNCHANGED <<srvStatus, leadsByStatus, totals, pagesFetched, loading,
                 loadGen, loadPhase, loadPending, statusChange, drags,
                 statuses, nChanges>>
  /\ UNCHANGED <<apiVars, importVars, detailVars, viewVars, scriptVars>>

\* The merge of a fetched page into its bucket.
MergePage(existing, incomingPage) ==
  SortByCreatedDesc(existing \o DedupedIncoming(existing, incomingPage))

\* The timer callback after its await, resolved with res. Every exit path
\* starts with inProgressPagesRef.current[st].delete(page): when
\* resetAndLoadWithFilter has dropped the sets that throws a TypeError, in
\* the catch and in the finally block again, and the statements after it
\* (setLoadingMore(false), loadTimers.current[st] = null) are not reached.
LoadMoreResponse(req, res) ==
  /\ req \in moreReqs
  /\ moreReqs' = moreReqs \ {req}
  /\ LET st  == req.st
         has == st \in DOMAIN inProgress
     IN  /\ IF res.ok /\ ~IsStale(req.gen)
            THEN /\ leadsByStatus' =
                      Put(leadsByStatus, st,
                          MergePage(Bucket(st), DefensiveFilter(res.leads, st)))
                 /\ totals' = Put(totals, st, res.total)
                 /\ pagesFetched' = [pagesFetched EXCEPT ![st] = @ \cup {req.page}]
            ELSE UNCHANGED <<leadsByStatus, totals, pagesFetched>>
         /\ IF has
            THEN /\ inProgress' = [inProgress EXCEPT ![st] = @ \ {req.page}]
                 /\ loadingMore' = [loadingMore EXCEPT ![st] = FALSE]
                 /\ loadTimers' = [loadTimers EXCEPT ![st] = Null]
            ELSE UNCHANGED <<inProgress, loadingMore, loadTimers>>
         /\ lastOp' = CASE res.ok /\ req.gen # loadGen ->
                             Op("staleLoadMore", st, Brings(st, res), "")
                        [] res.ok /\ req.gen = loadGen ->
                             Op("loadMore", st, Repeats(st, req.page, res), "")
                        [] OTHER -> Quiet
  /\ UNCHANGED <<srvStatus, loading, pendingTimers, loadGen, loadPhase,
                 loadPending, statusChange, drags, statuses, nChanges>>
  /\ UNCHANGED <<apiVars, importVars, detailVars, viewVars, scriptVars>>

\* resetAndLoadWithFilter(filter), from the sales-person Select or the
\* Clear button (rendered for an Admin while the board is not loading).
ResetAndLoadWithFilter ==
  /\ ~loading
  /\ StartLoad
  /\ pendingTimers' = [s \in Statuses |-> AfterClear(s)]
  /\ loadTimers' = [s \in Statuses |-> Null]
  /\ inProgress' = <<>>
  /\ pagesFetched' = [s \in Statuses |-> {}]
  /\ leadsByStatus' = <<>>
  /\ totals' = <<>>
  /\ lastOp' = Quiet
  /\ UNCHANGED <<srvStatus, loadingMore, loadPending, moreReqs, statusChange,
                 drags, statuses, nChanges>>
  /\ UNCHANGED <<apiVars, importVars, detailVars, viewVars, scriptVars>>

\* The leads the board holds, in any bucket.
Shown == UNION {Ids(Bucket(s)) : s \in Statuses}

\* App.handleLeadUpdate(updatedLead) for a lead edited in the detail view
\* without a status change: the board's updateLead is called with it.
HandleLeadUpdate(r) ==
  /\ \E s \in Statuses : \E i \in 1..Len(Bucket(s)) : Bucket(s)[i] = r
  /\ UpdateLead(r)
  /\ lastOp' = Op("updateLead", r.statusId, Holders(r.id) \ {r.statusId} # {}, r.id)
  /\ UNCHANGED <<srvStatus, pagesFetched, loadingMore, loading, loadTimers,
                 pendingTimers, inProgress, loadGen, loadPhase, loadPending,
                 moreReqs, statusChange, drags, statuses, nChanges>>
  /\ UNCHANGED <<apiVars, importVars, detailVars, viewVars, scriptVars>>

\* LeadDetailsModal.handleStatusChange: updateLeadStatus(lead.id, statusId)
\* is sent for the lead the detail view shows, opened from a card of the
\* board (the board renders its cards while it is not loading).
ModalStatusChange(l, to) ==
  /\ ~loading
  /\ statusChange = NoChange
  /\ nChanges < MaxChanges
  /\ nChanges' = nChanges + 1
  /\ l \in Shown
  /\ statusChange' = [lead |-> l, to |-> to, from |-> 0, applied |-> FALSE]
  /\ lastOp' = Quiet
  /\ UNCHANGED <<srvStatus, leadsByStatus, totals, pagesFetched, loadingMore,
                 loading, loadTimers, pendingTimers, inProgress, loadGen,
                 loadPhase, loadPending, moreReqs, drags, statuses>>
  /\ UNCHANGED <<apiVars, importVars, detailVars, viewVars, scriptVars>>

\* handleUpdateStatus of the remote service: the row's statusId is set.
ServerApplyStatus ==
  /\ statusChange # NoChange
  /\ ~statusChange.applied
  /\ srvStatus' = [srvStatus EXCEPT ![statusChange.lead] = statusChange.to]
  /\ statusChange' = [statusChange EXCEPT !.applied = TRUE]
  /\ lastOp' = Quiet
  /\ UNCHANGED <<leadsByStatus, totals, pagesFetched, loadingMore, loading,
                 loadTimers, pendingTimers, inProgress, loadGen, loadPhase,
                 loadPending, moreReqs, drags, statuses, nChanges>>
  /\ UNCHANGED <<apiVars, importVars, detailVars, viewVars, scriptVars>>

\* handleStatusChange after its await. On success onLeadUpdate runs
\* App.handleLeadUpdate: with the updated lead the board's updateLead,
\* without it the board's reload. A failure shows a message.
StatusChangeResponse(ok, withLead) ==
  /\ statusChange # NoChange
  /\ statusChange.from = 0
  /\ ok => statusChange.applied
  /\ statusChange' = NoChange
  /\ lastOp' = IF ok /\ withLead
               THEN Op("updateLead", statusChange.to,
                       Holders(statusChange.lead) \ {statusChange.to} # {},
                       statusChange.lead)
               ELSE Quiet
  /\ CASE ok /\ withLead ->
            /\ UpdateLead(LeadRec(statusChange.lead, statusChange.to))
            /\ UNCHANGED <<pagesFetched, loading, loadGen, loadPhase>>
       [] ok /\ ~withLead ->
            /\ StartLoad
            /\ pagesFetched' = [s \in Statuses |-> {}]
            /\ UNCHANGED <<leadsByStatus, totals>>
       [] OTHER ->
            /\ ~withLead
            /\ UNCHANGED <<leadsByStatus, totals, pagesFetched, loading,
                           loadGen, loadPhase>>
  /\ UNCHANGED <<srvStatus, loadingMore, loadTimers, pendingTimers,
                 inProgress, loadPending, moreReqs, drags, statuses, nChanges>>
  /\ UNCHANGED <<apiVars, importVars, detailVars, viewVars, scriptVars>>

Next ==
  \/ MountEffect
  \/ ReloadLeads
  \/ ResetAndLoadWithFilter
  \/ \E g \in 1..MaxGen, ok \in BOOLEAN : BulkResponse(g, ok)
  \/ \E g \in 1..MaxGen, st \in Statuses :
       \E res \in Responses(st, 1) : PageOneResponse(g, st, res)
  \/ \E st \in Statuses : LoadMoreTrigger(st)
  \/ \E st \in Statuses : TimerFire(st)
  \/ \E req \in moreReqs :
       \E res \in Responses(req.st, req.page) : LoadMoreResponse(req, res)
  \/ \E s \in Statuses : \E i \in 1..Len(Bucket(s)) : HandleLeadUpdate(Bucket(s)[i])
  \/ \E l \in Leads, to \in Statuses : ModalStatusChange(l, to)
  \/ ServerApplyStatus
  \/ \E ok \in BOOLEAN, withLead \in BOOLEAN : StatusChangeResponse(ok, withLead)

Spec == Init /\ [][Next]_vars

(* -------------------- the board with drag and drop --------------------- *)

\* This board's loadLeads and loadMoreForStatus are the ones above without
\* the generation checks. SpecDrag runs one load, under which the checks
\* never discard anything, and adds onDragEnd.

\* The last bucket, in key order, that holds the dragged lead.
OldStatusId(l) == CHOOSE s \in Holders(l) : \A t \in Holders(l) : t <= s

\* dst.splice(index, 0, x)
Splice(s, index, x) ==
  SubSeq(s, 1, index) \o <<x>> \o SubSeq(s, index + 1, Len(s))

\* The optimistic update of onDragEnd: the lead leaves the old bucket and
\* enters a copy of the new one at destination.index with its statusId set.
OptimisticMove(l, to, index) ==
  LET old == OldStatusId(l)
      src == SelectSeq(Bucket(old), LAMBDA r : r.id # l)
      dst == Splice(Bucket(to), index, LeadRec(l, to))
  IN  Put(Put(leadsByStatus, old, src), to, dst)

\* The 0-based position of the card in its column.
SourceIndex(l) ==
  (CHOOSE i \in 1..Len(Bucket(OldStatusId(l))) : Bucket(OldStatusId(l))[i].id = l) - 1

\* onDragEnd up to its await: a card is dropped anywhere but on its own
\* place, the buckets are updated and updateLeadStatus is sent. Nothing
\* keeps a second card from being dragged while the first call is out.
DragEnd(l, to, index) ==
  /\ ~loading
  /\ Cardinality(drags) < MaxDrags
  /\ l \in Shown
  /\ to \in statuses
  /\ index \in 0..Len(Bucket(to))
  /\ ~(to = OldStatusId(l) /\ index = SourceIndex(l))
  /\ leadsByStatus' = OptimisticMove(l, to, index)
  /\ drags' = drags \cup
       {[n |-> Cardinality(drags) + 1, lead |-> l, to |-> to,
         from |-> OldStatusId(l), applied |-> FALSE, phase |-> "sent",
         pending |-> {}]}
  /\ lastOp' = Quiet
  /\ UNCHANGED <<srvStatus, totals, pagesFetched, loadingMore, loading,
                 loadTimers, pendingTimers, inProgress, loadGen, loadPhase,
                 loadPending, moreReqs, statusChange, statuses, nChanges>>
  /\ UNCHANGED <<apiVars, importVars, detailVars, viewVars, scriptVars>>

\* handleUpdateStatus of the remote service for the request of a drag.
ServerApplyDrag(d) ==
  /\ d \in drags
  /\ d.phase = "sent"
  /\ ~d.applied
  /\ srvStatus' = [srvStatus EXCEPT ![d.lead] = d.to]
  /\ drags' = (drags \ {d}) \cup {[d EXCEPT !.applied = TRUE]}
  /\ lastOp' = Quiet
  /\ UNCHANGED <<leadsByStatus, totals, pagesFetched, loadingMore, loading,
                 loadTimers, pendingTimers, inProgress, loadGen, loadPhase,
                 loadPending, moreReqs, statusChange, statuses, nChanges>>
  /\ UNCHANGED <<apiVars, importVars, detailVars, viewVars, scriptVars>>

\* onDragEnd after await updateLeadStatus(...): success shows a message, a
\* failure sends the two page-1 requests of the revert.
DragStatusResponse(d, ok) ==
  /\ d \in drags
  /\ d.phase = "sent"
  /\ ok => d.applied
  /\ drags' = (drags \ {d}) \cup
       {IF ok THEN [d EXCEPT !.phase = "done"]
              ELSE [d EXCEPT !.phase = "revert", !.pending = {"old", "new"}]}
  /\ lastOp' = Quiet
  /\ UNCHANGED <<srvStatus, leadsByStatus, totals, pagesFetched, loadingMore,
                 loading, loadTimers, pendingTimers, inProgress, loadGen,
                 loadPhase, loadPending, moreReqs, statusChange, statuses,
                 nChanges>>
  /\ UNCHANGED <<apiVars, importVars, detailVars, viewVars, scriptVars>>

\* The status one request of the revert asks for.
RollbackStatus(d, which) == IF which = "old" THEN d.from ELSE d.to

\* One of the two requests of the revert resolved with res: the bucket
\* becomes d.leads and the total d.total. The last one ends the revert.
RollbackResponse(d, which, res) ==
  /\ d \in drags
  /\ d.phase = "revert"
  /\ which \in d.pending
  /\ LET st == RollbackStatus(d, which)
     IN  IF res.ok
         THEN /\ leadsByStatus' = Put(leadsByStatus, st, res.leads)
              /\ totals' = Put(totals, st, res.total)
         ELSE UNCHANGED <<leadsByStatus, totals>>
  /\ IF d.pending = {which}
     THEN /\ drags' = (drags \ {d}) \cup {[d EXCEPT !.phase = "done", !.pending = {}]}
          /\ lastOp' = Op("rolledBack", d.from, FALSE, d.lead)
     ELSE /\ drags' = (drags \ {d}) \cup {[d EXCEPT !.pending = @ \ {which}]}
          /\ lastOp' = Quiet
  /\ UNCHANGED <<srvStatus, pagesFetched, loadingMore, loading, loadTimers,
                 pendingTimers, inProgress, loadGen, loadPhase, loadPending,
                 moreReqs, statusChange, statuses, nChanges>>
  /\ UNCHANGED <<apiVars, importVars, detailVars, viewVars, scriptVars>>

NextDrag ==
  \/ MountEffect
  \/ \E ok \in BOOLEAN : BulkResponse(1, ok)
  \/ \E st \in Statuses : \E res \in Responses(st, 1) : PageOneResponse(1, st, res)
  \/ \E st \in Statuses : LoadMoreTrigger(st)
  \/ \E st \in Statuses : TimerFire(st)
  \/ \E req \in moreReqs :
       \E res \in Responses(req.st, req.page) : LoadMoreResponse(req, res)
  \/ \E l \in Leads, to \in Statuses :
       \E index \in 0..Cardinality(Leads) :
         Cardinality(drags) < MaxChanges /\ DragEnd(l, to, index)
  \/ \E d \in drags : ServerApplyDrag(d)
  \/ \E d \in drags, ok \in BOOLEAN : DragStatusResponse(d, ok)
  \/ \E d \in drags, which \in {"old", "new"} :
       \E res \in Responses(RollbackStatus(d, which), 1) : RollbackResponse(d, which, res)

SpecDrag == Init /\ [][NextDrag]_vars

\* The board of part_005 at page one with up to MaxDrags cards dragged, the
\* calls of one drag out while the next card is dropped.
NextTwoDrags ==
  \/ MountEffect
  \/ \E ok \in BOOLEAN : BulkResponse(1, ok)
  \/ \E st \in Statuses : \E res \in Responses(st, 1) : PageOneResponse(1, st, res)
  \/ \E l \in Leads, to \in Statuses :
       \E index \in 0..Cardinality(Leads) : DragEnd(l, to, index)
  \/ \E d \in drags : ServerApplyDrag(d)
  \/ \E d \in drags, ok \in BOOLEAN : DragStatusResponse(d, ok)
  \/ \E d \in drags, which \in {"old", "new"} :
       \E res \in Responses(RollbackStatus(d, which), 1) : RollbackResponse(d, which, res)

SpecTwoDrags == Init /\ [][NextTwoDrags]_vars

\* ---- services/api.ts ----

\* The module is evaluated: axios.create, the interceptors, new APICache().
ApiModuleLoad(b) ==
  /\ build = NoBuild
  /\ build' = b
  /\ UNCHANGED <<now, cache, session, calls, nCalls, lastApi, mustMiss, user>>
  /\ UNCHANGED <<boardVars, importVars, detailVars, viewVars, scriptVars>>

\* Time passes.
ApiTick ==
  /\ build # NoBuild
  /\ now < MaxNow
  /\ now' = now + 1
  /\ lastApi' = ApiQuiet
  /\ UNCHANGED <<build, cache, session, calls, nCalls, mustMiss, user>>
  /\ UNCHANGED <<boardVars, importVars, detailVars, viewVars, scriptVars>>

CanCall ==
  /\ build # NoBuild
  /\ nCalls < MaxApiCalls
  /\ Cardinality(calls) < MaxApiInflight

\* A call at its first await. anyOk: some answer of the remote service to
\* this call was a 2xx with data.
NewCall(op, stage, n) ==
  [id |-> nCalls + 1, op |-> op, stage |-> stage, pending |-> {}, n |-> n,
   i |-> 0, anyOk |-> FALSE]

\* The response interceptor of api: a 401 on a call made through it.
Intercepted(b, op, r) == Client(b, op) = "api" /\ r = "unauthorized"

\* The end of a step that handled answer r for call c. The interceptor
\* removes "user" and sets window.location.href, which loads the page anew:
\* the cache and the calls that are out are gone.
Settle(c, r, cacheAfter, callsAfter, missAfter, sessionAfter, result) ==
  /\ IF Intercepted(build, c.op, r)
     THEN /\ session' = FALSE
          /\ user' = NoUser
          /\ cache' = EmptyCache
          /\ calls' = {}
          /\ mustMiss' = {}
     ELSE /\ session' = sessionAfter
          /\ user' = user
          /\ cache' = cacheAfter
          /\ calls' = callsAfter
          /\ mustMiss' = missAfter
  /\ lastApi' = result
  /\ UNCHANGED <<build, now, nCalls>>
  /\ UNCHANGED <<boardVars, importVars, detailVars, viewVars, scriptVars>>

\* fetchStatuses, fetchUsers, fetchCommentsByLead, fetchLeads,
\* fetchLeadsByStatus, testAPI up to the first await: the azure build
\* answers from the cache when apiCache.get returns data, else the request
\* is sent.
ReadCall(op) ==
  /\ op \in ApiReads
  /\ CanCall
  /\ nCalls' = nCalls + 1
  /\ LET cached == build = "azure" /\ op \in CachedReads
         key == CacheKeyOf(op)
     IN  /\ IF cached /\ CacheHit(cache, key, now)
            THEN /\ cache' = CacheAfterGet(cache, key, now)
                 /\ calls' = calls
                 /\ lastApi' = ApiResult(op, TRUE, "cache")
            ELSE /\ cache' = IF cached THEN CacheAfterGet(cache, key, now) ELSE cache
                 /\ calls' = calls \cup {NewCall(op, "remote", 0)}
                 /\ lastApi' = ApiQuiet
         /\ mustMiss' = IF cached THEN {p \in mustMiss : ~Includes(key, p)}
                                  ELSE mustMiss
  /\ UNCHANGED <<build, now, session, user>>
  /\ UNCHANGED <<boardVars, importVars, detailVars, viewVars, scriptVars>>

\* The keys of the nested fetchStatuses() and fetchUsers() of fetchLeads.
MetaKeys == {<<"statuses">>, <<"users">>}

\* The cache after the apiCache.get of both nested reads.
AfterMetaGets(c) ==
  CacheAfterGet(CacheAfterGet(c, <<"statuses">>, now), <<"users">>, now)

\* A read after its await. A failure or a refusal is returned as
\* success: false. In the azure build a good answer is stored and returned;
\* fetchLeads first calls fetchStatuses() and fetchUsers(), which answer from
\* the cache or send their own requests.
ReadResponse(c, r) ==
  /\ c \in calls
  /\ c.op \in ApiReads
  /\ c.stage = "remote"
  /\ LET cached == build = "azure" /\ c.op \in CachedReads
         key == CacheKeyOf(c.op)
         pend == {k \in MetaKeys : ~CacheHit(cache, k, now)}
     IN  IF r # "ok"
         THEN Settle(c, r, cache, calls \ {c}, mustMiss, session,
                     ApiResult(c.op, FALSE, "none"))
         ELSE IF cached /\ Head(key) = "leads"
         THEN IF pend = {}
              THEN Settle(c, r, CacheSet(AfterMetaGets(cache), key, Ttl(key), now),
                          calls \ {c}, mustMiss, session,
                          ApiResult(c.op, TRUE, "remote"))
              ELSE Settle(c, r, AfterMetaGets(cache),
                          (calls \ {c}) \cup
                            {[c EXCEPT !.stage = "meta", !.pending = pend,
                                       !.anyOk = TRUE]},
                          mustMiss, session, ApiQuiet)
         ELSE Settle(c, r,
                     IF cached THEN CacheSet(cache, key, Ttl(key), now) ELSE cache,
                     calls \ {c}, mustMiss, session,
                     ApiResult(c.op, TRUE, "remote"))

\* fetchLeads after the await of one nested read: a good answer is stored
\* under the nested read's key, a failure is passed over; after both the
\* page is stored under the key of fetchLeads and returned.
MetaResponse(c, k, r) ==
  /\ c \in calls
  /\ c.stage = "meta"
  /\ k \in c.pending
  /\ LET c1 == IF r = "ok" THEN CacheSet(cache, k, Ttl(k), now) ELSE cache
         key == CacheKeyOf(c.op)
     IN  IF c.pending = {k}
         THEN Settle(c, r, CacheSet(c1, key, Ttl(key), now), calls \ {c},
                     mustMiss, session, ApiResult(c.op, TRUE, "remote"))
         ELSE Settle(c, r, c1,
                     (calls \ {c}) \cup {[c EXCEPT !.pending = @ \ {k}]},
                     mustMiss, session, ApiQuiet)

\* updateLeadStatus, assignLead, addComment up to the await.
MutationCall(op) ==
  /\ op \in ApiMutations
  /\ CanCall
  /\ nCalls' = nCalls + 1
  /\ calls' = calls \cup {NewCall(op, "remote", 0)}
  /\ lastApi' = ApiQuiet
  /\ UNCHANGED <<build, now, cache, session, mustMiss, user>>
  /\ UNCHANGED <<boardVars, importVars, detailVars, viewVars, scriptVars>>

\* A mutation after its await: on a 2xx the azure build invalidates the
\* pattern and returns the normalized answer; a failure is returned as
\* success: false.
MutationResponse(c, r) ==
  /\ c \in calls
  /\ c.op \in ApiMutations
  /\ c.stage = "remote"
  /\ IF r \in {"ok", "refused"}
     THEN Settle(c, r,
                 IF build = "azure" THEN Invalidate(cache, PatternOf(c.op)) ELSE cache,
                 calls \ {c},
                 IF r = "ok" THEN mustMiss \cup {PatternOf(c.op)} ELSE mustMiss,
                 session,
                 ApiResult(c.op, r = "ok", IF r = "ok" THEN "remote" ELSE "none"))
     ELSE Settle(c, r, cache, calls \ {c}, mustMiss, session,
                 ApiResult(c.op, FALSE, "none"))

\* importLeads(leadsArray) with n leads up to its first await: the azure
\* build posts to /api/Leads/import, the other posts the action.
ImportCall(n) ==
  /\ n \in 1..MaxBatchRows
  /\ CanCall
  /\ nCalls' = nCalls + 1
  /\ calls' = calls \cup
       {NewCall("importLeads", IF build = "azure" THEN "import" ELSE "remote", n)}
  /\ lastApi' = ApiQuiet
  /\ UNCHANGED <<build, now, cache, session, mustMiss, user>>
  /\ UNCHANGED <<boardVars, importVars, detailVars, viewVars, scriptVars>>

\* importLeads after an await. The azure build returns the answer of
\* /api/Leads/import or, that failing, of /api/Leads/bulk; both failing it
\* posts the leads one by one, keeps each answer or failure in results, and
\* returns success: true with imported = results.length.
ImportResponse(c, r) ==
  /\ c \in calls
  /\ c.op = "importLeads"
  /\ LET good == r \in {"ok", "refused"}
         leads == <<"leads">>
     IN  CASE c.stage = "remote" ->
                Settle(c, r, cache, calls \ {c},
                       IF r = "ok" THEN mustMiss \cup {leads} ELSE mustMiss,
                       session,
                       ApiResult(c.op, r = "ok", IF r = "ok" THEN "remote" ELSE "none"))
           [] c.stage \in {"import", "bulk"} /\ good ->
                Settle(c, r, Invalidate(cache, leads), calls \ {c},
                       IF r = "ok" THEN mustMiss \cup {leads} ELSE mustMiss,
                       session,
                       ApiResult(c.op, r = "ok", IF r = "ok" THEN "remote" ELSE "none"))
           [] c.stage \in {"import", "bulk"} /\ ~good ->
                Settle(c, r, cache,
                       (calls \ {c}) \cup
                         {[c EXCEPT !.stage = IF c.stage = "import" THEN "bulk" ELSE "lead"]},
                       mustMiss, session, ApiQuiet)
           [] c.stage = "lead" /\ c.i + 1 < c.n ->
                Settle(c, r, cache,
                       (calls \ {c}) \cup
                         {[c EXCEPT !.i = @ + 1, !.anyOk = @ \/ r = "ok"]},
                       mustMiss, session, ApiQuiet)
           [] c.stage = "lead" /\ c.i + 1 = c.n ->
                Settle(c, r, Invalidate(cache, leads), calls \ {c},
                       mustMiss \cup {leads}, session,
                       ApiResult(c.op, TRUE,
                                 IF c.anyOk \/ r = "ok" THEN "remote" ELSE "none"))

\* login up to the await.
LoginCall ==
  /\ CanCall
  /\ nCalls' = nCalls + 1
  /\ calls' = calls \cup {NewCall("login", "remote", 0)}
  /\ lastApi' = ApiQuiet
  /\ UNCHANGED <<build, now, cache, session, mustMiss, user>>
  /\ UNCHANGED <<boardVars, importVars, detailVars, viewVars, scriptVars>>

\* login after the await: a good answer with a token is stored as "user".
LoginResponse(c, r) ==
  /\ c \in calls
  /\ c.op = "login"
  /\ Settle(c, r, cache, calls \ {c}, mustMiss,
            IF r = "ok" THEN TRUE ELSE session,
            ApiResult(c.op, r = "ok", IF r = "ok" THEN "remote" ELSE "none"))

\* logout: "user" is removed, the azure build clears the cache, and the page
\* is loaded anew.
Logout ==
  /\ build # NoBuild
  /\ session
  /\ session' = FALSE
  /\ user' = NoUser
  /\ cache' = EmptyCache
  /\ calls' = {}
  /\ mustMiss' = {}
  /\ lastApi' = ApiQuiet
  /\ UNCHANGED <<build, now, nCalls>>
  /\ UNCHANGED <<boardVars, importVars, detailVars, viewVars, scriptVars>>

NextApi ==
  \/ \E b \in Builds : ApiModuleLoad(b)
  \/ ApiTick
  \/ \E op \in ApiReads : ReadCall(op)
  \/ \E c \in calls, r \in RemoteAnswers : ReadResponse(c, r)
  \/ \E c \in calls, k \in MetaKeys, r \in RemoteAnswers : MetaResponse(c, k, r)
  \/ \E op \in ApiMutations : MutationCall(op)
  \/ \E c \in calls, r \in RemoteAnswers : MutationResponse(c, r)
  \/ \E n \in 1..MaxBatchRows : ImportCall(n)
  \/ \E c \in calls, r \in RemoteAnswers : ImportResponse(c, r)
  \/ LoginCall
  \/ \E c \in calls, r \in RemoteAnswers : LoginResponse(c, r)
  \/ Logout

SpecApi == Init /\ [][NextApi]_vars

\* ---- App.tsx: login and logout ----

\* The Login form after login() has returned success: login() has stored
\* the answer's user as "user", and handleLogin sets the App's user from it.
HandleLogin(u) ==
  /\ build # NoBuild
  /\ u \in Users
  /\ user = NoUser
  /\ ~session
  /\ session' = TRUE
  /\ user' = u
  /\ lastApi' = ApiQuiet
  /\ UNCHANGED <<build, now, cache, calls, nCalls, mustMiss>>
  /\ UNCHANGED <<boardVars, importVars, detailVars, viewVars, scriptVars>>

\* handleLogout, the Logout item of the user menu: "user" is removed and
\* the App's user is set to null; the page stays.
HandleLogout ==
  /\ user # NoUser
  /\ session' = FALSE
  /\ user' = NoUser
  /\ lastApi' = ApiQuiet
  /\ UNCHANGED <<build, now, cache, calls, nCalls, mustMiss>>
  /\ UNCHANGED <<boardVars, importVars, detailVars, viewVars, scriptVars>>

\* A read called by the board, the table or the detail view, which the App
\* shows to a user logged in.
SessionRead(op) ==
  /\ user # NoUser
  /\ ReadCall(op)

\* Logout and login within the ttl of the entries: no time passes.
NextSession ==
  \/ \E b \in Builds : ApiModuleLoad(b)
  \/ \E u \in Users : HandleLogin(u)
  \/ HandleLogout
  \/ \E op \in ApiReads : SessionRead(op)
  \/ \E c \in calls, r \in RemoteAnswers : ReadResponse(c, r)
  \/ \E c \in calls, k \in MetaKeys, r \in RemoteAnswers : MetaResponse(c, k, r)

SpecSession == Init /\ [][NextSession]_vars

\* ---- components/CSVImport.tsx ----

\* toInsert.slice(i, i + batchSize) with i = (k - 1) * batchSize, one row short.
Batch_short(rows, k) ==
  SubSeq(rows, (k - 1) * BATCH_SIZE + 1,
         IF k * BATCH_SIZE - 1 < Len(rows) THEN k * BATCH_SIZE - 1 ELSE Len(rows))

\* toInsert.slice(i, i + batchSize) with i = (k - 1) * batchSize: the k-th
\* element of batches.
Batch(rows, k) ==
  SubSeq(rows, (k - 1) * BATCH_SIZE + 1,
         IF k * BATCH_SIZE < Len(rows) THEN k * BATCH_SIZE ELSE Len(rows))

\* batches.length
NumBatches(rows) == (Len(rows) + BATCH_SIZE - 1) \div BATCH_SIZE

\* Math.round((count / total) * 100)
RoundPercent(count, total) == (200 * count + total) \div (2 * total)

Notice(kind, count) == [kind |-> kind, count |-> count]

\* handleFileUpload: a file of n rows has been parsed; a row is told by its
\* place in the file.
HandleFileUpload(n) ==
  /\ ~importing
  /\ n \in 0..MaxRows
  /\ previewData' = [i \in 1..n |-> i]
  /\ notice' = NoNotice
  /\ UNCHANGED <<importing, importProgress, importPhase, toInsert,
                 batchesSent, importedCount>>
  /\ UNCHANGED <<boardVars, apiVars, detailVars, viewVars, scriptVars>>

\* handleImport up to the await of the precheck fetchLeads.
HandleImport ==
  /\ ~importing
  /\ importing' = TRUE
  /\ importProgress' = 0
  /\ importPhase' = "precheck"
  /\ toInsert' = <<>>
  /\ batchesSent' = <<>>
  /\ importedCount' = 0
  /\ UNCHANGED <<previewData, notice>>
  /\ UNCHANGED <<boardVars, apiVars, detailVars, viewVars, scriptVars>>

\* handleImport after the precheck: existing are the rows whose id the
\* answer holds (none when fetchLeads failed). The rows left are cut into
\* batches and importLeads is called with the first, or, none being left,
\* the user is told so.
PrecheckResponse(existing) ==
  /\ importPhase = "precheck"
  /\ existing \subseteq 1..Len(previewData)
  /\ LET rows == SelectSeq(previewData, LAMBDA r : r \notin existing)
     IN  /\ toInsert' = rows
         /\ IF Len(rows) = 0
            THEN /\ notice' = Notice("info", Len(previewData))
                 /\ importing' = FALSE
                 /\ importPhase' = "done"
                 /\ batchesSent' = <<>>
            ELSE /\ batchesSent' = <<Batch(rows, 1)>>
                 /\ importPhase' = "sending"
                 /\ UNCHANGED <<notice, importing>>
  /\ UNCHANGED <<previewData, importProgress, importedCount>>
  /\ UNCHANGED <<boardVars, apiVars, detailVars, viewVars, scriptVars>>

\* handleImport after await importLeads(batch): a failure throws to the
\* catch, which sets the error text; a success counts the batch, sets the
\* progress and calls importLeads with the next batch or, after the last,
\* shows Modal.success with the count.
BatchResponse(ok) ==
  /\ importPhase = "sending"
  /\ LET k == Len(batchesSent)
         count == importedCount + Len(batchesSent[k])
     IN  IF ~ok
         THEN /\ notice' = Notice("error", -1)
              /\ importing' = FALSE
              /\ importPhase' = "failed"
              /\ UNCHANGED <<importedCount, importProgress, batchesSent>>
         ELSE /\ importedCount' = count
              /\ importProgress' = RoundPercent(count, Len(toInsert))
              /\ IF k < NumBatches(toInsert)
                 THEN /\ batchesSent' = Append(batchesSent, Batch(toInsert, k + 1))
                      /\ UNCHANGED <<notice, importing, importPhase>>
                 ELSE /\ notice' = Notice("success", count)
                      /\ importing' = FALSE
                      /\ importPhase' = "done"
                      /\ UNCHANGED batchesSent
  /\ UNCHANGED <<previewData, toInsert>>
  /\ UNCHANGED <<boardVars, apiVars, detailVars, viewVars, scriptVars>>

NextImport ==
  \/ \E n \in 0..MaxRows : HandleFileUpload(n)
  \/ HandleImport
  \/ \E existing \in SUBSET (1..MaxRows) : PrecheckResponse(existing)
  \/ \E ok \in BOOLEAN : BatchResponse(ok)

SpecImport == Init /\ [][NextImport]_vars

\* ---- CSVImport.tsx on services/api.ts: one import, its batches handed to
\* ---- importLeads ----

\* handleImport of the first import of the page.
FirstImport ==
  /\ build # NoBuild
  /\ nCalls = 0
  /\ HandleImport

\* handleImport calls importLeads(batch) with the batch it has come to.
BatchCall ==
  /\ importPhase = "sending"
  /\ nCalls < Len(batchesSent)
  /\ ImportCall(Len(batchesSent[Len(batchesSent)]))

\* handleImport after await importLeads(batch): response.success decides.
BatchReturn ==
  /\ nCalls = Len(batchesSent)
  /\ calls = {}
  /\ lastApi.op = "importLeads"
  /\ BatchResponse(lastApi.success)

NextImportApi ==
  \/ \E b \in Builds : ApiModuleLoad(b)
  \/ \E n \in 0..MaxRows : HandleFileUpload(n)
  \/ FirstImport
  \/ \E existing \in SUBSET (1..MaxRows) : PrecheckResponse(existing)
  \/ BatchCall
  \/ \E c \in calls, r \in RemoteAnswers : ImportResponse(c, r)
  \/ BatchReturn

SpecImportApi == Init /\ [][NextImportApi]_vars

\* ---- App.tsx and LeadDetailsModal.tsx: the detail view ----

\* handleLeadClick: a row of lead x is clicked and becomes selectedLead.
HandleLeadClick ==
  /\ ~selectedLead.open
  /\ selectedLead' = [open |-> TRUE, assignedTo |-> listAssignee, assigned |-> NoUser]
  /\ UNCHANGED <<srvAssignee, listAssignee, assigningLead, assignOut, reloadOut,
                 assignLog, detailMsg>>
  /\ UNCHANGED <<boardVars, apiVars, importVars, viewVars, scriptVars>>

\* onClose: setSelectedLead(null).
DetailClose ==
  /\ selectedLead.open
  /\ selectedLead' = NoLead
  /\ UNCHANGED <<srvAssignee, listAssignee, assigningLead, assignOut, reloadOut,
                 assignLog, detailMsg>>
  /\ UNCHANGED <<boardVars, apiVars, importVars, viewVars, scriptVars>>

\* handleAssignLead(userId) up to its await: the Admin picks a member in the
\* Assigned To select, which is disabled while a call is out.
HandleAssignLead(u) ==
  /\ selectedLead.open
  /\ ~assigningLead
  /\ Len(assignLog) < MaxAssigns
  /\ u \in Users
  /\ assigningLead' = TRUE
  /\ detailMsg' = "loading"
  /\ assignOut' = [user |-> u, applied |-> FALSE]
  /\ assignLog' = Append(assignLog, <<"x", u>>)
  /\ UNCHANGED <<srvAssignee, listAssignee, selectedLead, reloadOut>>
  /\ UNCHANGED <<boardVars, apiVars, importVars, viewVars, scriptVars>>

\* The remote service assigns the lead.
ServerApplyAssign ==
  /\ assignOut # NoAssign
  /\ ~assignOut.applied
  /\ srvAssignee' = assignOut.user
  /\ assignOut' = [assignOut EXCEPT !.applied = TRUE]
  /\ UNCHANGED <<listAssignee, selectedLead, assigningLead, reloadOut, assignLog,
                 detailMsg>>
  /\ UNCHANGED <<boardVars, apiVars, importVars, viewVars, scriptVars>>

\* handleAssignLead after the await: on success message.success and
\* onLeadUpdate(), which App.handleLeadUpdate takes without a lead and
\* answers with a reload of board and table; on failure message.error.
AssignResponse(ok) ==
  /\ assignOut # NoAssign
  /\ ok => assignOut.applied
  /\ assigningLead' = FALSE
  /\ assignOut' = NoAssign
  /\ IF ok
     THEN /\ detailMsg' = "success"
          /\ reloadOut' = TRUE
          /\ selectedLead' = IF selectedLead.open
                             THEN [selectedLead EXCEPT !.assigned = assignOut.user]
                             ELSE selectedLead
     ELSE /\ detailMsg' = "error"
          /\ UNCHANGED <<reloadOut, selectedLead>>
  /\ UNCHANGED <<srvAssignee, listAssignee, assignLog>>
  /\ UNCHANGED <<boardVars, apiVars, importVars, viewVars, scriptVars>>

\* The reload of board and table is answered: their rows hold the assignee
\* of the remote service.
DetailReloadResponse ==
  /\ reloadOut
  /\ reloadOut' = FALSE
  /\ listAssignee' = srvAssignee
  /\ UNCHANGED <<srvAssignee, selectedLead, assigningLead, assignOut, assignLog,
                 detailMsg>>
  /\ UNCHANGED <<boardVars, apiVars, importVars, viewVars, scriptVars>>

NextDetail ==
  \/ HandleLeadClick
  \/ DetailClose
  \/ \E u \in Users : HandleAssignLead(u)
  \/ ServerApplyAssign
  \/ \E ok \in BOOLEAN : AssignResponse(ok)
  \/ DetailReloadResponse

SpecDetail == Init /\ [][NextDetail]_vars

\* ---- the assignee filter of the leads requests: App.tsx, KanbanBoard,
\* ---- LeadsTable.tsx ----

\* App shows the views to a user logged in: the board is handed user.role
\* and user.id by both App.tsx, the table by the second only.
AppShow(version, role, id) ==
  /\ viewer = NoViewer
  /\ version \in AppVersions
  /\ role \in Roles
  /\ id \in Users
  /\ viewer' = [role |-> role, id |-> id]
  /\ tableProps' = IF version = "second" THEN [role |-> role, id |-> id]
                                        ELSE NoViewer
  /\ UNCHANGED <<salesFilter, boardLoad, lastReq, statusFilter, assignedFilter,
                 tblLog, tblShown>>
  /\ UNCHANGED <<boardVars, apiVars, importVars, detailVars, scriptVars>>

\* assignedFilterParam of loadLeads:
\* userRole && userRole !== "Admin" ? userId
\*   : (assignedFilterOverride ?? salesFilter) || undefined
PageOneAssigned(props, override, filter) ==
  IF props.role # "none" /\ props.role # "Admin"
  THEN props.id
  ELSE IF override # NoFilter THEN override ELSE filter

\* assignedFilterParam of loadMoreForStatus:
\* userRole && userRole !== "Admin" ? userId : salesFilter || undefined
LoadMoreAssigned(props, filter) ==
  IF props.role # "none" /\ props.role # "Admin" THEN props.id ELSE filter

\* filters.AssignedUserId of the table's loadLeads.
TableAssigned(props, filter) ==
  IF props.role # "none" /\ props.role # "Admin" THEN props.id ELSE filter

\* loadLeads(assignedFilterOverride) of the board up to its first await:
\* fetchLeads() is called with no argument. salesFilter is the one of the
\* render the function was made in.
LoadLeadsBulk(override) ==
  /\ lastReq' = [op |-> "fetchLeads", assigned |-> NoFilter]
  /\ boardLoad' = [out |-> TRUE, override |-> override,
                   salesFilter |-> salesFilter]

\* The mount effect and reloadLeads of the board: loadLeads().
BoardLoadLeads ==
  /\ viewer # NoViewer
  /\ LoadLeadsBulk(NoFilter)
  /\ UNCHANGED <<viewer, tableProps, salesFilter, statusFilter, assignedFilter,
                 tblLog, tblShown>>
  /\ UNCHANGED <<boardVars, apiVars, importVars, detailVars, scriptVars>>

\* The board's sales person Select and Clear button, shown to an Admin:
\* resetAndLoadWithFilter(v) sets salesFilter and calls loadLeads(v).
SelectSalesFilter(v) ==
  /\ viewer.role = "Admin"
  /\ v \in Users \cup {NoFilter}
  /\ salesFilter' = v
  /\ LoadLeadsBulk(v)
  /\ UNCHANGED <<viewer, tableProps, statusFilter, assignedFilter, tblLog,
                 tblShown>>
  /\ UNCHANGED <<boardVars, apiVars, importVars, detailVars, scriptVars>>

\* loadLeads of the board after its first await: the first page of every
\* category is asked for with assignedFilterParam.
PageOneRequests ==
  /\ boardLoad.out
  /\ lastReq' = [op |-> "fetchLeadsByStatus",
                 assigned |-> PageOneAssigned(viewer, boardLoad.override,
                                              boardLoad.salesFilter)]
  /\ boardLoad' = NoBoardLoad
  /\ UNCHANGED <<viewer, tableProps, salesFilter, statusFilter, assignedFilter,
                 tblLog, tblShown>>
  /\ UNCHANGED <<boardVars, apiVars, importVars, detailVars, scriptVars>>

\* loadMoreForStatus of the board when its timer fires: the next page is
\* asked for with assignedFilterParam.
LoadMoreRequest ==
  /\ viewer # NoViewer
  /\ lastReq' = [op |-> "fetchLeadsByStatus",
                 assigned |-> LoadMoreAssigned(viewer, salesFilter)]
  /\ UNCHANGED <<viewer, tableProps, salesFilter, boardLoad, statusFilter,
                 assignedFilter, tblLog, tblShown>>
  /\ UNCHANGED <<boardVars, apiVars, importVars, detailVars, scriptVars>>

\* loadLeads(p, ps) of the table up to its await, made in a render with
\* filters status and assigned: the call fetchLeads(p, ps, filters).
TableCall(p, status, assigned) ==
  [page |-> p, status |-> status,
   assigned |-> TableAssigned(tableProps, assigned), answer |-> "out"]

\* The table is mounted: the filter effect calls loadLeads(1, pageSize).
TableMount ==
  /\ viewer # NoViewer
  /\ tblLog = <<>>
  /\ tblLog' = <<TableCall(1, statusFilter, assignedFilter)>>
  /\ UNCHANGED <<viewer, tableProps, salesFilter, boardLoad, lastReq,
                 statusFilter, assignedFilter, tblShown>>
  /\ UNCHANGED <<boardVars, apiVars, importVars, detailVars, scriptVars>>

\* The status Select of the table: setStatusFilter(val || null), and the
\* filter effect of the next render calls loadLeads(1, pageSize).
SetStatusFilter(val) ==
  /\ Len(tblLog) \in 1..(MaxTableLoads - 1)
  /\ val \in StatusFilters \cup {NoFilter}
  /\ val # statusFilter
  /\ statusFilter' = val
  /\ tblLog' = Append(tblLog, TableCall(1, val, assignedFilter))
  /\ UNCHANGED <<viewer, tableProps, salesFilter, boardLoad, lastReq,
                 assignedFilter, tblShown>>
  /\ UNCHANGED <<boardVars, apiVars, importVars, detailVars, scriptVars>>

\* The sales person Select of the table, shown when userRole === "Admin":
\* setAssignedFilter(val || null), and the filter effect of the next render
\* calls loadLeads(1, pageSize).
SetAssignedFilter(val) ==
  /\ Len(tblLog) \in 1..(MaxTableLoads - 1)
  /\ tableProps.role = "Admin"
  /\ val \in Users \cup {NoFilter}
  /\ val # assignedFilter
  /\ assignedFilter' = val
  /\ tblLog' = Append(tblLog, TableCall(1, statusFilter, val))
  /\ UNCHANGED <<viewer, tableProps, salesFilter, boardLoad, lastReq,
                 statusFilter, tblShown>>
  /\ UNCHANGED <<boardVars, apiVars, importVars, detailVars, scriptVars>>

\* Clear Filters: both filters are set to null and loadLeads(1, pageSize) of
\* this render, with the filters as they were, is called; when a filter has
\* changed the filter effect of the next render calls it again.
ClearFilters ==
  LET changed == statusFilter # NoFilter \/ assignedFilter # NoFilter
      first == Append(tblLog, TableCall(1, statusFilter, assignedFilter))
  IN  /\ Len(tblLog) >= 1
      /\ Len(tblLog) + (IF changed THEN 2 ELSE 1) <= MaxTableLoads
      /\ statusFilter' = NoFilter
      /\ assignedFilter' = NoFilter
      /\ tblLog' = IF changed
                   THEN Append(first, TableCall(1, NoFilter, NoFilter))
                   ELSE first
      /\ UNCHANGED <<viewer, tableProps, salesFilter, boardLoad, lastReq,
                     tblShown>>
      /\ UNCHANGED <<boardVars, apiVars, importVars, detailVars, scriptVars>>

\* onChange of the pagination, and reload (page 1): loadLeads(p, ps).
PageChange(p) ==
  /\ Len(tblLog) \in 1..(MaxTableLoads - 1)
  /\ p \in 1..MaxPage
  /\ tblLog' = Append(tblLog, TableCall(p, statusFilter, assignedFilter))
  /\ UNCHANGED <<viewer, tableProps, salesFilter, boardLoad, lastReq,
                 statusFilter, assignedFilter, tblShown>>
  /\ UNCHANGED <<boardVars, apiVars, importVars, detailVars, scriptVars>>

\* loadLeads of the table after its await, for the i-th call: with a good
\* answer leads, total, page and pageSize are set from it; a failure shows
\* a message.
TableResponse(i, ok) ==
  /\ i \in 1..Len(tblLog)
  /\ tblLog[i].answer = "out"
  /\ tblLog' = [tblLog EXCEPT ![i].answer = IF ok THEN "ok" ELSE "failed"]
  /\ tblShown' = IF ok THEN i ELSE tblShown
  /\ UNCHANGED <<viewer, tableProps, salesFilter, boardLoad, lastReq,
                 statusFilter, assignedFilter>>
  /\ UNCHANGED <<boardVars, apiVars, importVars, detailVars, scriptVars>>

NextViews ==
  \/ \E version \in AppVersions, role \in Roles, id \in Users :
       AppShow(version, role, id)
  \/ BoardLoadLeads
  \/ \E v \in Users \cup {NoFilter} : SelectSalesFilter(v)
  \/ PageOneRequests
  \/ LoadMoreRequest
  \/ TableMount
  \/ \E val \in StatusFilters \cup {NoFilter} : SetStatusFilter(val)
  \/ \E val \in Users \cup {NoFilter} : SetAssignedFilter(val)
  \/ ClearFilters
  \/ \E p \in 1..MaxPage : PageChange(p)
  \/ \E i \in 1..MaxTableLoads, ok \in BOOLEAN : TableResponse(i, ok)

SpecViews == Init /\ [][NextViews]_vars

\* ---- the Apps Script backend with the script cache ----

\* The role column of the users sheet.
RoleOf(u) == IF u = "u1" THEN "Admin" ELSE "SalesTeam"

\* getFromCache of the users rows at the time: the entry, while it has not
\* expired.
CachedRows ==
  IF scriptCache # NoRows /\ scriptNow < scriptCache.expiresAt
  THEN scriptCache.rows ELSE <<>>

\* sheetRows("users"): the cached rows, or else the rows of the sheet.
UsersRows == IF CachedRows # <<>> THEN CachedRows ELSE sheetTokens

\* The script cache after sheetRows("users"): a miss stores the rows read
\* for 60 seconds.
CacheAfterSheetRows ==
  IF CachedRows # <<>> THEN scriptCache
  ELSE [rows |-> sheetTokens, expiresAt |-> scriptNow + CACHE_DURATION]

\* getUserByToken(token): the user of the first row holding the token.
GetUserByToken(token) ==
  IF token = NoToken \/ \A u \in Users : UsersRows[u] # token
  THEN NoUser
  ELSE CHOOSE u \in Users : UsersRows[u] = token

\* Time passes at the backend.
ScriptTick ==
  /\ scriptNow < MaxScriptNow
  /\ scriptNow' = scriptNow + 1
  /\ UNCHANGED <<sheetTokens, scriptCache, nTokens, scriptAnswer>>
  /\ UNCHANGED <<boardVars, apiVars, importVars, detailVars, viewVars>>

\* doPost with action auth.login: handleLogin looks the user up in
\* sheetRows("users"); found, it writes a new token into the user's row of
\* the sheet and answers with it.
HandleLoginRequest(u, found) ==
  /\ u \in Users
  /\ IF found
     THEN /\ nTokens < MaxTokens
          /\ nTokens' = nTokens + 1
          /\ sheetTokens' = [sheetTokens EXCEPT ![u] = nTokens + 1]
          /\ scriptAnswer' = [action |-> "auth.login", user |-> u,
                              token |-> nTokens + 1, success |-> TRUE,
                              error |-> ""]
     ELSE /\ scriptAnswer' = [action |-> "auth.login", user |-> u,
                              token |-> NoToken, success |-> FALSE,
                              error |-> "Invalid credentials"]
          /\ UNCHANGED <<nTokens, sheetTokens>>
  /\ scriptCache' = CacheAfterSheetRows
  /\ UNCHANGED scriptNow
  /\ UNCHANGED <<boardVars, apiVars, importVars, detailVars, viewVars>>

\* doPost with action leads.addComment or leads.assign and a token:
\* currentUser = getUserByToken(token); handleAddComment wants a user,
\* handleAssignLead an Admin, else the answer is Unauthorized.
HandleTokenRequest(action, token) ==
  /\ action \in {"leads.addComment", "leads.assign"}
  /\ token \in 1..nTokens
  /\ LET currentUser == GetUserByToken(token)
         allowed == /\ currentUser # NoUser
                    /\ action = "leads.assign" => RoleOf(currentUser) = "Admin"
     IN  scriptAnswer' = [action |-> action, user |-> currentUser,
                          token |-> token, success |-> allowed,
                          error |-> IF allowed THEN "" ELSE "Unauthorized"]
  /\ scriptCache' = CacheAfterSheetRows
  /\ UNCHANGED <<sheetTokens, scriptNow, nTokens>>
  /\ UNCHANGED <<boardVars, apiVars, importVars, detailVars, viewVars>>

NextScript ==
  \/ ScriptTick
  \/ \E u \in Users, found \in BOOLEAN : HandleLoginRequest(u, found)
  \/ \E action \in {"leads.addComment", "leads.assign"}, token \in 1..MaxTokens :
       HandleTokenRequest(action, token)

SpecScript == Init /\ [][NextScript]_vars

(* ----------------------------- properties ------------------------------ *)

BucketNext(st) == IF st \in DOMAIN leadsByStatus' THEN leadsByStatus'[st] ELSE <<>>

\* C1: a lead id is in at most one bucket, and every record is in the
\* bucket of its statusId.
C1_OneBucketPerLead ==
  /\ \A l \in Leads : Cardinality(Holders(l)) <= 1
  /\ \A s \in Statuses : \A i \in 1..Len(Bucket(s)) : Bucket(s)[i].statusId = s

\* C2: a successful page response of an earlier generation, page 1 of a
\* load or a load-more page, changes no bucket.
C2_StaleResponseChangesNoBucket ==
  [][lastOp'.op \in {"stalePageOne", "staleLoadMore"}
       => leadsByStatus' = leadsByStatus]_vars

\* C2 witness: a load-more response of an earlier generation has arrived
\* carrying a lead its bucket does not hold.
C2_Witness == lastOp.op = "staleLoadMore" /\ lastOp.flag

\* C3: once a newer load has started, no response to a request of the
\* earlier load changes what a bucket holds.
C3_EarlierLoadWritesNothing ==
  [][\A g \in 1..MaxGen :
       (g # loadGen /\ \E ok \in BOOLEAN : BulkResponse(g, ok))
         => \A st \in Statuses : BucketNext(st) = Bucket(st)]_vars

\* C4: when the revert of a failed drag has completed, the dragged lead is
\* in exactly one bucket, the one of its status at the remote service.
C4_RevertedToServerStatus ==
  lastOp.op = "rolledBack" => Holders(lastOp.id) = {srvStatus[lastOp.id]}

\* C5: a load-more response that repeats a fetched page leaves the size of
\* its bucket unchanged, and no merge puts a lead into a bucket twice.
C5_RepeatedPageAddsNothing ==
  [][lastOp'.op = "loadMore" =>
       /\ Cardinality(Ids(BucketNext(lastOp'.st))) = Len(BucketNext(lastOp'.st))
       /\ lastOp'.flag => Len(BucketNext(lastOp'.st)) = Len(Bucket(lastOp'.st))]_vars

\* C5 witness: the response to a second request for a fetched page has been
\* merged.
C5_Witness == lastOp.op = "loadMore" /\ lastOp.flag

\* s is in descending order of creation time, unparseable times counting as 0.
SortedDesc(s) ==
  \A i \in 1..Len(s) : \A j \in 1..Len(s) :
    i < j => GetTimeOrZero(s[i]) >= GetTimeOrZero(s[j])

\* Records of equal creation time stand in out in the order they have in inp.
TiesKept(inp, out) ==
  \A i \in 1..Len(inp) : \A j \in 1..Len(inp) :
    (i < j /\ GetTimeOrZero(inp[i]) = GetTimeOrZero(inp[j])) =>
      \E m \in 1..Len(out) : \E n \in 1..Len(out) :
        m < n /\ out[m] = inp[i] /\ out[n] = inp[j]

\* C6: no bucket holds a record whose statusId is not the bucket's, whichever
\* request filled it: page 1 of the load, a load-more page, or the re-fetch
\* after a failed status change.
C6_NoForeignRecordInBucket ==
  \A st \in DOMAIN leadsByStatus :
    \A i \in 1..Len(leadsByStatus[st]) : leadsByStatus[st][i].statusId = st

\* C7: every merge leaves its bucket in descending order of creation time
\* with unparseable times last, and records of equal time in the order in
\* which they were put in: the response's order for page 1, the bucket
\* followed by the new records for load-more, the updated lead followed by
\* the rest of the bucket for a single-lead update.
C7_MergedBucketSorted ==
  [][/\ \A st \in Statuses : SortedDesc(BucketNext(st))
     /\ \A g \in 1..MaxGen, st \in Statuses : \A res \in Responses(st, 1) :
          (PageOneResponse(g, st, res) /\ res.ok /\ g = loadGen) =>
            TiesKept(DefensiveFilter(res.leads, st), BucketNext(st))
     /\ \A req \in moreReqs : \A res \in Responses(req.st, req.page) :
          (LoadMoreResponse(req, res) /\ res.ok /\ req.gen = loadGen) =>
            TiesKept(Bucket(req.st) \o
                     SelectSeq(DefensiveFilter(res.leads, req.st),
                               LAMBDA r : r.id \notin Ids(Bucket(req.st))),
                     BucketNext(req.st))
     /\ lastOp'.op = "updateLead" =>
          TiesKept(<<LeadRec(lastOp'.id, lastOp'.st)>> \o
                   SelectSeq(Bucket(lastOp'.st), LAMBDA r : r.id # lastOp'.id),
                   BucketNext(lastOp'.st))]_vars

\* C7 witness: a load-more page has been merged into a bucket that now
\* holds two leads of equal time and, after them, one of unparseable time.
C7_Witness ==
  /\ lastOp.op = "loadMore"
  /\ \E st \in Statuses :
       /\ Len(Bucket(st)) = 3
       /\ Bucket(st)[1].id = "a" /\ Bucket(st)[2].id = "b" /\ Bucket(st)[3].id = "c"

\* C8: after updateLead(L) the lead is in the bucket of L.statusId and in
\* no other bucket.
C8_UpdatedLeadInItsBucketOnly ==
  [][lastOp'.op = "updateLead" =>
       \A st \in Statuses :
         lastOp'.id \in Ids(BucketNext(st)) <=> st = lastOp'.st]_vars

\* C8 witness: updateLead has run for a lead that another bucket held.
C8_Witness == lastOp.op = "updateLead" /\ lastOp.flag

\* C9: no load-more request of the current generation is in flight for a
\* page recorded as fetched.
C9_NoRequestForFetchedPage ==
  \A req \in moreReqs : req.gen = loadGen => req.page \notin pagesFetched[req.st]

\* C10: a burst of triggers on one status leaves one timer pending, the
\* one of the last trigger.
C10_OneTimerPerBurst ==
  \A st \in Statuses : Len(pendingTimers[st]) <= 1

\* A trigger on st would ask for this page: the total does not turn it away
\* and the page is the next one and not recorded as fetched.
CanRequest(st, page) ==
  /\ ~NoMoreToLoad(st)
  /\ NextPage(st) = page
  /\ page \notin pagesFetched[st]

\* C11: a failed page fetch of the current generation, page 1 of the load or
\* a load-more page, marks the page neither fetched nor in flight, schedules
\* no retry, and leaves the page open to a later trigger unless it was
\* recorded as fetched before.
C11_FailedPageOpenToRetry ==
  [][/\ \A g \in 1..MaxGen, st \in Statuses :
          (g = loadGen /\ PageOneResponse(g, st, FailedResponse)) =>
            /\ pagesFetched' = pagesFetched
            /\ pendingTimers' = pendingTimers /\ moreReqs' = moreReqs
            /\ 1 \notin pagesFetched[st] => CanRequest(st, 1)'
     /\ \A req \in moreReqs :
          (req.gen = loadGen /\ LoadMoreResponse(req, FailedResponse)) =>
            /\ pagesFetched' = pagesFetched
            /\ req.page \notin InProgressOf(req.st)'
            /\ pendingTimers' = pendingTimers /\ moreReqs' = moreReqs \ {req}]_vars

\* C12: a load-more trigger on a status whose bucket is at least as long as
\* its recorded total schedules no timer, sends no request and changes
\* neither buckets, totals nor the page bookkeeping.
C12_TriggerBeyondTotalIsNoOp ==
  [][\A st \in Statuses :
       (/\ LoadMoreTrigger(st)
        /\ st \in DOMAIN totals
        /\ Len(Bucket(st)) >= totals[st]) =>
         UNCHANGED <<leadsByStatus, totals, pagesFetched, loadingMore, loadTimers,
                     pendingTimers, inProgress, moreReqs>>]_vars

\* C12 witness: a trigger has been turned away on a status whose bucket
\* holds more than one page and as many leads as its total, with nothing
\* scheduled or in flight for it.
C12_Witness ==
  /\ lastOp.op = "noMore"
  /\ Len(Bucket(lastOp.st)) = totals[lastOp.st]
  /\ pendingTimers[lastOp.st] = <<>>
  /\ \A req \in moreReqs : req.st # lastOp.st

\* C13: a successful page-1 response of the current load fills the bucket
\* and the total of its own status from the response and leaves every
\* other status as it was, whichever page-1 requests of the load have
\* failed or are still out.
C13_PageOneOfEachStatusOnItsOwn ==
  [][\A g \in 1..MaxGen, st \in Statuses : \A res \in Responses(st, 1) :
       (g = loadGen /\ res.ok /\ PageOneResponse(g, st, res)) =>
         /\ Ids(BucketNext(st)) =
              {res.leads[i].id : i \in {j \in 1..Len(res.leads) : res.leads[j].statusId = st}}
         /\ Len(BucketNext(st)) = Cardinality(Ids(BucketNext(st)))
         /\ st \in DOMAIN totals' /\ totals'[st] = res.total
         /\ 1 \in pagesFetched'[st]
         /\ \A other \in Statuses \ {st} :
              /\ BucketNext(other) = Bucket(other)
              /\ other \in DOMAIN totals => (other \in DOMAIN totals' /\ totals'[other] = totals[other])
              /\ pagesFetched'[other] = pagesFetched[other]]_vars

\* C13 witness: the first load has ended with the page-1 request of status
\* 2 failed and the bucket and total of status 1 filled.
C13_Witness ==
  /\ loadGen = 1 /\ loadPhase[1] = "done"
  /\ 1 \notin pagesFetched[2]
  /\ 1 \in pagesFetched[1]
  /\ Len(Bucket(1)) = PAGE_SIZE /\ totals[1] = Cardinality(Leads)

\* C14: when the cards of two different leads have each been dragged to
\* another column and both calls, with the revert of a failed one, have
\* completed, the lead of a drag whose call succeeded is in the bucket of
\* its status at the remote service and in no other.
C14_TwoDragsEachWhereTheServiceHasIt ==
  (/\ Cardinality(drags) = 2
   /\ Cardinality({d.lead : d \in drags}) = 2
   /\ \A d \in drags : d.phase = "done" /\ d.from # d.to)
    => \A d \in drags :
         (d.applied /\ srvStatus[d.lead] = d.to) => Holders(d.lead) = {d.to}

\* C15: a read that consults the cache is answered from it only while now is
\* before the expiry of the entry (time of set + ttl); with now at or past
\* the expiry the get misses and the entry is removed.
C15_GetHitsOnlyBeforeExpiry ==
  [][\A op \in CachedReads :
       (build = "azure" /\ ReadCall(op)) =>
         LET key == CacheKeyOf(op)
             e == cache[key]
         IN  /\ lastApi'.served = "cache" => (e # NoEntry /\ now < e.expiresAt)
             /\ (e # NoEntry /\ now >= e.expiresAt) =>
                  (lastApi'.served # "cache" /\ cache'[key] = NoEntry)]_vars

\* C16: from the return of a successful mutation until the next read of the
\* affected class is called, the cache holds no entry whose key contains the
\* mutation's pattern ("leads" for a status update, an assignment and an
\* import, comments_<leadId> for a comment), so that read goes to the remote
\* service.
C16_NoEntryAfterMutation ==
  \A p \in mustMiss : \A k \in CacheKeys : Includes(k, p) => cache[k] = NoEntry

\* The step handles answer r of the remote service to call c.
Answered(c, r) ==
  \/ ReadResponse(c, r)
  \/ \E k \in MetaKeys : MetaResponse(c, k, r)
  \/ MutationResponse(c, r)
  \/ ImportResponse(c, r)
  \/ LoginResponse(c, r)

\* C17: a 401 answer to any call of the client, read or mutation, removes the
\* persisted session object.
C17_UnauthorizedRemovesSession ==
  [][\A c \in calls : Answered(c, "unauthorized") => ~session']_vars

\* C18: an operation of the API layer to which the remote service gave no
\* good answer (every remote call of it failed: network error, timeout, HTTP
\* error, refusal) returns success: false.
C18_FailureAnsweredWithFailure ==
  (lastApi.op # "" /\ lastApi.served = "none") => ~lastApi.success

\* C19: when a batch of an import has failed, no further batch has been sent
\* and the user is shown the number of rows imported before the failure.
C19_FailureReportsImportedCount ==
  importPhase = "failed" =>
    /\ notice.kind = "error"
    /\ notice.count = importedCount
    /\ importedCount = (Len(batchesSent) - 1) * BATCH_SIZE

\* The batches sent so far, one after the other.
RECURSIVE Flatten(_)
Flatten(ss) == IF ss = <<>> THEN <<>> ELSE Head(ss) \o Flatten(Tail(ss))

\* C20: the batches handed to importLeads are consecutive slices of the rows
\* to insert, each of batchSize rows but for a shorter last one, in the
\* order of the rows; after the last batch they hold every row exactly once;
\* the progress set after a batch is not below the one before and is 100
\* after the last batch.
C20_BatchesCoverRowsInOrder ==
  [][/\ Flatten(batchesSent') = SubSeq(toInsert', 1, Len(Flatten(batchesSent')))
     /\ \A k \in 1..Len(batchesSent') :
          /\ Len(batchesSent'[k]) \in 1..BATCH_SIZE
          /\ k < Len(batchesSent') => Len(batchesSent'[k]) = BATCH_SIZE
     /\ BatchResponse(TRUE) =>
          /\ importProgress' >= importProgress
          /\ importPhase' = "done" =>
               /\ Flatten(batchesSent') = toInsert'
               /\ importProgress' = 100
               /\ notice'.count = Len(toInsert')]_vars

\* C20 witness: an import of five rows has ended after three batches, the
\* last one of a single row.
C20_Witness ==
  /\ importPhase = "done"
  /\ notice.kind = "success"
  /\ Len(toInsert) = MaxRows
  /\ Len(batchesSent) = NumBatches(toInsert)
  /\ Len(batchesSent[Len(batchesSent)]) < BATCH_SIZE
  /\ importProgress = 100

\* C21: when an assignLead made from the detail view has succeeded and the
\* reload it started has been answered, the assignedTo the view shows is the
\* user of that call.
C21_DetailShowsAssignee ==
  (/\ selectedLead.open
   /\ selectedLead.assigned # NoUser
   /\ ~assigningLead
   /\ ~reloadOut)
    => selectedLead.assignedTo = selectedLead.assigned

\* C22: no bucket holds two entries with the same lead id, after any
\* sequence of page loads and drops of a card into another column or at
\* another place of its own column.
C22_NoLeadTwiceInBucket ==
  \A st \in DOMAIN leadsByStatus :
    Cardinality(Ids(leadsByStatus[st])) = Len(leadsByStatus[st])

\* C23: a load-more trigger for a category whose bucket holds fewer leads
\* than its recorded total, with no page request for it pending or in
\* flight, schedules a request for a page that has not been fetched.
C23_TriggerBelowTotalSchedulesNewPage ==
  [][\A st \in Statuses :
       (/\ LoadMoreTrigger(st)
        /\ st \in DOMAIN totals
        /\ Len(Bucket(st)) < totals[st]
        /\ pendingTimers[st] = <<>>
        /\ InProgressOf(st) = {}
        /\ \A req \in moreReqs : req.st # st)
         => /\ pendingTimers'[st] # <<>>
            /\ pendingTimers'[st][Len(pendingTimers'[st])] \notin pagesFetched[st]]_vars


\* C24: the answer to a leads read (fetchLeads, fetchLeadsByStatus) that was
\* out while a status update, an assignment or an import returned with
\* success is not left in the cache: after the step that handles it the
\* cache holds no entry under that read's key.
C24_LeadsReadAcrossMutationNotStored ==
  [][\A c \in calls, r \in RemoteAnswers :
       (/\ build = "azure"
        /\ c.op \in {"fetchLeads", "fetchLeadsByStatus"}
        /\ <<"leads">> \in mustMiss
        /\ \/ ReadResponse(c, r)
           \/ \E k \in MetaKeys : MetaResponse(c, k, r))
         => cache'[CacheKeyOf(c.op)] = NoEntry]_vars

\* C25: a read called while a user is logged in is not answered from a cache
\* entry that was stored while another user was logged in, whether that
\* user left by the Logout item or by a 401.
C25_NoReadFromAnotherUsersEntry ==
  [][\A op \in CachedReads :
       (/\ user # NoUser
        /\ ReadCall(op)
        /\ lastApi'.served = "cache")
         => cache[CacheKeyOf(op)].by \notin Users \ {user}]_vars

\* C26: for a user who is not an Admin, every leads request of the board
\* and every leads request of the table carries the user's own id as the
\* assignee filter.
C26_SalesTeamRequestsCarryOwnId ==
  viewer.role = "SalesTeam" =>
    /\ lastReq # NoReq => lastReq.assigned = viewer.id
    /\ \A i \in 1..Len(tblLog) : tblLog[i].assigned = viewer.id

\* C27: once every loadLeads call of the table has been answered, and the
\* one called last with success, the rows, total and page shown are those
\* of the call made last: they were set from an answer to the same page
\* and filters.
C27_TableShowsLatestLoad ==
  (/\ Len(tblLog) > 0
   /\ \A i \in 1..Len(tblLog) : tblLog[i].answer # "out"
   /\ tblLog[Len(tblLog)].answer = "ok")
    => /\ tblShown \in 1..Len(tblLog)
       /\ tblLog[tblShown] = tblLog[Len(tblLog)]

\* C28: after the answer to a load-more page request has been handled, be it
\* a good one, a failure, or a stale one discarded after a reload or a
\* filter reset, the category's loadingMore flag is false and the page is
\* not in the category's in-progress set.
C28_LoadMoreCompletionClearsFlags ==
  [][\A req \in moreReqs :
       \A res \in Responses(req.st, req.page) :
         LoadMoreResponse(req, res) =>
           /\ ~loadingMore'[req.st]
           /\ req.st \in DOMAIN inProgress' => req.page \notin inProgress'[req.st]]_vars

\* C29: handleImport counts a batch as imported only if the remote service
\* accepted it: importLeads returned success on a good answer of the
\* service, not after the import, the bulk and every per-lead request
\* had failed.
C29_BatchCountedOnlyIfAccepted ==
  [][(BatchReturn /\ importedCount' > importedCount)
       => lastApi.served = "remote"]_vars

\* C30: a request made right after a successful login with the token that
\* login returned (an addComment of any user, an assignLead of an Admin) is
\* not answered Unauthorized.
C30_FreshTokenAccepted ==
  [][\A action \in {"leads.addComment", "leads.assign"} :
       (/\ scriptAnswer.action = "auth.login"
        /\ scriptAnswer.success
        /\ action = "leads.assign" => RoleOf(scriptAnswer.user) = "Admin"
        /\ HandleTokenRequest(action, scriptAnswer.token))
         => scriptAnswer'.success]_vars
====
